---- MODULE Spec2Model ----
(***************************************************************************)
(* Model of the two command-line programs of timelapse-stitcher:           *)
(*   make_filelist.py     -- the manifest builder                          *)
(*   render_timelapse.py  -- the video renderer                            *)
(* The two programs share no state; each has its own specification.        *)
(*                                                                         *)
(* Conventions.  A Python value that may be None is a sequence of length   *)
(* 0 (None) or 1 (the value).  A float is an integer number of hundredths  *)
(* (gamma 1.30 is 130), except slowdown, kept in tenths (1.5 is 15).       *)
(***************************************************************************)
EXTENDS Integers, Sequences, FiniteSets, TLC

\* ------------------------------------------------------------------ bounds
\* Frame counters in file names range over 1..MaxNum.
MaxNum == 2
\* Longest directory listing.
MaxFiles == 2
\* Longest input manifest of the renderer, in lines.
MaxLines == 3

\* ------------------------------------------------------------- Python values
NoneV == <<>>
Some(x) == <<x>>
IsNone(o) == o = <<>>
Val(o) == o[1]

\* ===========================================================================
\*                              make_filelist.py
\* ===========================================================================

\* A file name is its parts: the letters before the first counter, the
\* digits of the counter, the digits after "_" (<<>> when the name has no
\* "_dddd" part) and what follows.
Digits4(n) == << (n \div 1000) % 10, (n \div 100) % 10, (n \div 10) % 10, n % 10 >>

\* int(m.group(2)): the decimal value of a digit string.
RECURSIVE ToInt(_)
ToInt(ds) == IF ds = <<>> THEN 0
             ELSE 10 * ToInt(SubSeq(ds, 1, Len(ds) - 1)) + ds[Len(ds)]

\* re.IGNORECASE on the literal parts of the patterns.
Upper(s) == CASE s = "dscf" -> "DSCF"
              [] s = ".jpg" -> ".JPG"
              [] OTHER      -> s

\* r"(DSCF)(\d{4})\.JPG$"
pattern_simple(f) == /\ Upper(f.pre) = "DSCF"
                     /\ Len(f.num) = 4
                     /\ f.suf = <<>>
                     /\ Upper(f.ext) = ".JPG"

\* r"(DSCF\d{4})_(\d{4})\.JPG$"
pattern_suffix(f) == /\ Upper(f.pre) = "DSCF"
                     /\ Len(f.num) = 4
                     /\ Len(f.suf) = 4
                     /\ Upper(f.ext) = ".JPG"

\* The names a directory may hold.
SimpleNames == { [pre |-> "DSCF", num |-> Digits4(n), suf |-> <<>>, ext |-> ".JPG"] : n \in 1..MaxNum }
                 \cup { [pre |-> "dscf", num |-> Digits4(1), suf |-> <<>>, ext |-> ".jpg"] }
SuffixNames == { [pre |-> "DSCF", num |-> Digits4(1), suf |-> Digits4(n), ext |-> ".JPG"] : n \in 1..MaxNum }
                 \cup { [pre |-> "DSCF", num |-> Digits4(2), suf |-> Digits4(1), ext |-> ".jpg"] }
OtherNames  == { [pre |-> "DSCF", num |-> <<0, 0, 1>>, suf |-> <<>>, ext |-> ".JPG"],
                 [pre |-> "DSCF", num |-> Digits4(1), suf |-> <<>>, ext |-> ".PNG"] }
FileNames   == SimpleNames \cup SuffixNames \cup OtherNames

\* os.listdir: the names of a directory, each once, in any order.
Listings == { s \in UNION { [1..n -> FileNames] : n \in 0..MaxFiles } :
                \A i, j \in 1..Len(s) : i # j => s[i] # s[j] }

Bounds == { NoneV } \cup { Some(n) : n \in 1..MaxNum }
SkipLists == { NoneV, Some(<<>>) } \cup { Some(<<n>>) : n \in 1..MaxNum }

VARIABLES
    fpc,        \* position of make_filelist.main
    isdir,      \* os.path.isdir(directory)
    files,      \* os.listdir(directory)
    start,      \* args.start
    end,        \* args.end
    skip_list,  \* args.skip
    mode,       \* "None", "suffix" or "simple"
    matches,    \* list of <<number, file name>>
    manifest,   \* the output file: NoneV (no such file) or Some(lines)
    output_before, \* the output file as the run found it
    ferr        \* the RuntimeError raised, "" when none

flvars == << fpc, isdir, files, start, end, skip_list, mode, matches, manifest,
            output_before, ferr >>

VARIABLES
    rpc,            \* position of render_timelapse.main
    cli,            \* the command line: each option as given (NoneV when not given)
    env,            \* what the run finds: the manifest's content, the first image, the imaging library
    args,           \* the argparse namespace, as main updates it
    warnings,       \* the orientation warnings printed
    base_name,      \* base_name
    suffix,         \* suffix, the list of tags
    output_path,    \* the output file's name, as a sequence of string pieces
    WH,             \* << W, H >>
    filters,        \* filters, the list of stages; a stage is the filters its string holds
    vf,             \* ",".join(filters), as the sequence of filters it denotes
    input_filelist, \* input_filelist
    temp_file,      \* temp_file: NoneV or Some(name)
    tmpfs,          \* the temporary directory: NoneV (no file) or Some(content of the file)
    wm,             \* the watermark values: position, size, alpha, target px
    cmd,            \* cmd, as a record of its variable parts
    enc,            \* the encoder process: how often started, with which input, its exit code
    stdout          \* what main printed of the command and of "Done"

rtvars == << rpc, cli, env, args, warnings, base_name, suffix, output_path, WH, filters, vf,
             input_filelist, temp_file, tmpfs, wm, cmd, enc, stdout >>

vars == << flvars, rtvars >>

\* Mutant of DetectMode: the suffix convention wins wherever it occurs in the listing.
DetectMode_SuffixAnywhere(fs) ==
    IF \E i \in 1..Len(fs) : pattern_suffix(fs[i]) THEN "suffix"
    ELSE IF \E i \in 1..Len(fs) : pattern_simple(fs[i]) THEN "simple"
    ELSE "None"

\* lines 49-55: the first file, in listing order, that matches a pattern fixes the mode.
RECURSIVE DetectMode(_)
DetectMode(fs) ==
    IF fs = <<>> THEN "None"
    ELSE IF pattern_suffix(Head(fs)) THEN "suffix"
    ELSE IF pattern_simple(Head(fs)) THEN "simple"
    ELSE DetectMode(Tail(fs))

\* lines 68-78: the number of a file under a mode, NoneV when the pattern does not match.
ExtractNumber(m, f) ==
    IF m = "suffix"
    THEN IF pattern_suffix(f) THEN Some(ToInt(f.suf)) ELSE NoneV
    ELSE IF pattern_simple(f) THEN Some(ToInt(f.num)) ELSE NoneV

InList(n, l) == \E i \in 1..Len(l) : l[i] = n

\* Mutant of Keep: the start bound is exclusive.
Keep_StartExclusive(number, st, en, sk) ==
    /\ ~(~IsNone(st) /\ number <= Val(st))
    /\ ~(~IsNone(en) /\ number > Val(en))
    /\ ~(~IsNone(sk) /\ InList(number, Val(sk)))

\* lines 80-91: the range and skip tests; TRUE when the file is kept.
Keep(number, st, en, sk) ==
    /\ ~(~IsNone(st) /\ number < Val(st))
    /\ ~(~IsNone(en) /\ number > Val(en))
    /\ ~(~IsNone(sk) /\ InList(number, Val(sk)))

\* lines 65-93: the collect loop.
RECURSIVE CollectMatches(_, _, _, _, _)
CollectMatches(fs, m, st, en, sk) ==
    IF fs = <<>> THEN <<>>
    ELSE LET n == ExtractNumber(m, Head(fs))
             rest == CollectMatches(Tail(fs), m, st, en, sk)
         IN IF IsNone(n) THEN rest
            ELSE IF Keep(Val(n), st, en, sk) THEN << <<Val(n), Head(fs)>> >> \o rest
            ELSE rest

\* list.sort(key=lambda x: x[0]): a stable sort on the number.
RECURSIVE InsertByNumber(_, _)
InsertByNumber(x, s) ==
    IF s = <<>> THEN <<x>>
    ELSE IF x[1] < Head(s)[1] THEN <<x>> \o s
    ELSE <<Head(s)>> \o InsertByNumber(x, Tail(s))

\* Mutant of SortByNumber: the list is written in collection order.
SortByNumber_Unsorted(s) == s

RECURSIVE SortByNumber(_)
SortByNumber(s) ==
    IF s = <<>> THEN <<>>
    ELSE InsertByNumber(s[Len(s)], SortByNumber(SubSeq(s, 1, Len(s) - 1)))

\* line 104: f"file '{path}'\n"
ManifestLine(m) == [kw |-> "file", path |-> m[2], nl |-> TRUE]

ManifestLines(ms) == [i \in 1..Len(ms) |-> ManifestLine(ms[i])]

\* What the output path can hold before the run: nothing, or the manifest of
\* an earlier run.
OutputsBefore ==
    { NoneV,
      Some(<< [kw |-> "file",
               path |-> [pre |-> "dscf", num |-> << 9, 9, 9, 9 >>, suf |-> <<>>, ext |-> ".jpg"],
               nl |-> TRUE] >>) }

\* lines 21-25: the state after the arguments are parsed.
FLStart ==
    /\ fpc = "start"
    /\ isdir \in BOOLEAN
    /\ files \in Listings
    /\ (~isdir => files = <<>>)
    /\ start \in Bounds
    /\ end \in Bounds
    /\ skip_list \in SkipLists
    /\ mode = "None"
    /\ matches = <<>>
    /\ output_before \in OutputsBefore
    /\ manifest = output_before
    /\ ferr = ""

\* lines 33-36
CheckDir ==
    /\ fpc = "start"
    /\ IF ~isdir
       THEN /\ fpc' = "error"
            /\ ferr' = "Not a directory"
       ELSE /\ fpc' = "detect"
            /\ ferr' = ferr
    /\ UNCHANGED << output_before, isdir, files, start, end, skip_list, mode, matches, manifest >>
    /\ UNCHANGED rtvars

\* lines 45-61
Detect ==
    /\ fpc = "detect"
    /\ mode' = DetectMode(files)
    /\ IF mode' = "None"
       THEN /\ fpc' = "error"
            /\ ferr' = "No supported JPG filename patterns found"
       ELSE /\ fpc' = "collect"
            /\ ferr' = ferr
    /\ UNCHANGED << output_before, isdir, files, start, end, skip_list, matches, manifest >>
    /\ UNCHANGED rtvars

\* Mutant of Collect: the empty-list test of line 95 is missing.
Collect_NoEmptyTest ==
    /\ fpc = "collect"
    /\ matches' = CollectMatches(files, mode, start, end, skip_list)
    /\ fpc' = "write"
    /\ UNCHANGED << output_before, isdir, files, start, end, skip_list, mode, manifest, ferr >>
    /\ UNCHANGED rtvars

\* Mutant of Collect: the output file is opened for writing before the
\* empty-list test of line 95.
Collect_OpenBeforeTest ==
    /\ fpc = "collect"
    /\ matches' = CollectMatches(files, mode, start, end, skip_list)
    /\ manifest' = Some(<<>>)
    /\ IF matches' = <<>>
       THEN /\ fpc' = "error"
            /\ ferr' = "No valid JPG files found in the specified range"
       ELSE /\ fpc' = "write"
            /\ ferr' = ferr
    /\ UNCHANGED << output_before, isdir, files, start, end, skip_list, mode >>
    /\ UNCHANGED rtvars

\* lines 64-96
Collect ==
    /\ fpc = "collect"
    /\ matches' = CollectMatches(files, mode, start, end, skip_list)
    /\ IF matches' = <<>>
       THEN /\ fpc' = "error"
            /\ ferr' = "No valid JPG files found in the specified range"
       ELSE /\ fpc' = "write"
            /\ ferr' = ferr
    /\ UNCHANGED << output_before, isdir, files, start, end, skip_list, mode, manifest >>
    /\ UNCHANGED rtvars

\* lines 98-106
WriteManifest ==
    /\ fpc = "write"
    /\ matches' = SortByNumber(matches)
    /\ manifest' = Some(ManifestLines(matches'))
    /\ fpc' = "done"
    /\ UNCHANGED << output_before, isdir, files, start, end, skip_list, mode, ferr >>
    /\ UNCHANGED rtvars

\* ===========================================================================
\*                             render_timelapse.py
\* ===========================================================================

WATERMARK_DEFAULT_POSITION == "bottom-left"
\* 0.12, in hundredths
WATERMARK_DEFAULT_SIZE == 12
\* 0.6, in hundredths
WATERMARK_DEFAULT_ALPHA == 60
\* 1.35, in hundredths
WATERMARK_VERTICAL_MULTIPLIER == 135
\* the cap of the watermark's width, in pixels
WATERMARK_MAX_PX == 512

LOOK_PRESETS ==
    ("milkyway"       :> [gamma |-> 130, contrast |-> 115, saturation |-> 110, clarity |-> 30]) @@
    ("aurora"         :> [gamma |-> 135, contrast |-> 115, saturation |-> 115, clarity |-> 30]) @@
    ("aurora-boosted" :> [gamma |-> 142, contrast |-> 135, saturation |-> 130, clarity |-> 35])

WATERMARK_POSITIONS ==
    ("top-left"      :> "0.02*W:0.02*H") @@
    ("top-right"     :> "W-w-0.02*W:0.02*H") @@
    ("bottom-left"   :> "0.02*W:H-h-0.02*H") @@
    ("bottom-right"  :> "W-w-0.02*W:H-h-0.02*H") @@
    ("center"        :> "(W-w)/2:(H-h)/2") @@
    ("center-bottom" :> "(W-w)/2:H-h-0.04*H")

WATERMARK_SIZES == ("small" :> 8) @@ ("default" :> WATERMARK_DEFAULT_SIZE) @@ ("large" :> 15)

WATERMARK_TRANSPARENCY == ("weak" :> 80) @@ ("default" :> WATERMARK_DEFAULT_ALPHA) @@ ("strong" :> 35)

\* dict.get(key, default)
DictGet(d, k, default) == IF k \in DOMAIN d THEN d[k] ELSE default

\* Python truth of an optional string: neither None nor "".
Truthy(o) == ~IsNone(o) /\ Val(o) # ""

OrDefault(o, d) == IF IsNone(o) THEN d ELSE Val(o)

\* The positional argument.
FilelistPath == "frames.txt"

\* os.path.splitext(os.path.basename(p))[0]
Stem(path) == IF path = "frames.txt" THEN "frames" ELSE path

\* lines 149-264: the namespace argparse builds from the command line.  wm_size
\* and wm_alpha have no type=: a given value stays the string it was typed as,
\* and only the default is a number.
ParseArgs(c) ==
    [ filelist      |-> FilelistPath,
      name          |-> c.name,
      outdir        |-> "Timelapses",
      orientation   |-> OrDefault(c.orientation, "landscape"),
      resolution    |-> OrDefault(c.resolution, "1080p"),
      aspect_mode   |-> OrDefault(c.aspect_mode, "auto"),
      crop_bias     |-> OrDefault(c.crop_bias, "center"),
      debug_overlay |-> c.debug_overlay,
      fps           |-> OrDefault(c.fps, 24),
      slowdown      |-> OrDefault(c.slowdown, 10),
      watermark     |-> c.watermark,
      wm_position   |-> OrDefault(c.wm_position, WATERMARK_DEFAULT_POSITION),
      wm_size       |-> IF IsNone(c.wm_size)
                        THEN [isnum |-> TRUE, num |-> WATERMARK_DEFAULT_SIZE, str |-> ""]
                        ELSE [isnum |-> FALSE, num |-> 0, str |-> Val(c.wm_size)],
      wm_alpha      |-> IF IsNone(c.wm_alpha)
                        THEN [isnum |-> TRUE, num |-> WATERMARK_DEFAULT_ALPHA, str |-> ""]
                        ELSE [isnum |-> FALSE, num |-> 0, str |-> Val(c.wm_alpha)],
      look          |-> c.look,
      gamma         |-> OrDefault(c.gamma, 100),
      contrast      |-> OrDefault(c.contrast, 100),
      saturation    |-> OrDefault(c.saturation, 100),
      clarity       |-> OrDefault(c.clarity, 0),
      boomerang     |-> c.boomerang,
      use_exif_date |-> c.use_exif_date,
      crf           |-> 20,
      preset        |-> "slow",
      dry_run       |-> c.dry_run,
      verbose       |-> c.verbose ]

\* The command line with no option given.
DefaultCli ==
    [ name |-> NoneV, orientation |-> NoneV, resolution |-> NoneV, aspect_mode |-> NoneV,
      crop_bias |-> NoneV, debug_overlay |-> FALSE, fps |-> NoneV, slowdown |-> NoneV,
      watermark |-> NoneV, wm_position |-> NoneV, wm_size |-> NoneV, wm_alpha |-> NoneV,
      look |-> NoneV, gamma |-> NoneV, contrast |-> NoneV, saturation |-> NoneV,
      clarity |-> NoneV, boomerang |-> FALSE, use_exif_date |-> FALSE, dry_run |-> FALSE,
      verbose |-> FALSE ]

\* ------------------------------------------------------------ manifest text
\* A text file is the sequence of its pieces: the text of a line, then "\n"
\* when the line is terminated.  Only the last line of a file can lack "\n".
FrameTexts == { "file 'a.jpg'", "file 'b.jpg'", "file 'c.jpg'" }
LineTexts  == FrameTexts \cup { "# note" }

RECURSIVE Flatten(_)
Flatten(ss) == IF ss = <<>> THEN <<>> ELSE Head(ss) \o Flatten(Tail(ss))

\* The content of a file whose lines have the texts ts, the last one
\* terminated or not.
FileContent(ts, terminated) ==
    Flatten([i \in 1..Len(ts) |->
                IF i < Len(ts) \/ terminated THEN << ts[i], "\n" >> ELSE << ts[i] >>])

ManifestContents ==
    { FileContent(ts, t) : ts \in UNION { [1..n -> LineTexts] : n \in 0..MaxLines }, t \in BOOLEAN }

\* "for line in f": the lines of a text, each with its terminator.
RECURSIVE SplitLinesFrom(_, _)
SplitLinesFrom(content, cur) ==
    IF content = <<>> THEN (IF cur = <<>> THEN <<>> ELSE << cur >>)
    ELSE IF Head(content) = "\n"
         THEN << Append(cur, "\n") >> \o SplitLinesFrom(Tail(content), <<>>)
         ELSE SplitLinesFrom(Tail(content), Append(cur, Head(content)))

SplitLines(content) == SplitLinesFrom(content, <<>>)

\* Frame lines that give the path without quotes, as a manifest written by
\* hand may.
UnquotedFrameTexts == { "file d.jpg" }

\* line.startswith("file")
StartsWithFile(line) == line # <<>> /\ line[1] \in FrameTexts \cup UnquotedFrameTexts

\* [l for l in f if l.startswith("file")]
RECURSIVE FrameLines(_)
FrameLines(ls) ==
    IF ls = <<>> THEN <<>>
    ELSE IF StartsWithFile(Head(ls)) THEN << Head(ls) >> \o FrameLines(Tail(ls))
    ELSE FrameLines(Tail(ls))

\* s[::-1]
RECURSIVE Reverse(_)
Reverse(s) == IF s = <<>> THEN <<>> ELSE Append(Reverse(Tail(s)), Head(s))

\* s[1:]
DropFirst(s) == IF s = <<>> THEN <<>> ELSE Tail(s)

\* The outcome of a call: the value it returns, or the exception it raises.
Return(v) == [exc |-> "", ret |-> v]
Raise(x)  == [exc |-> x, ret |-> NoneV]
Raised(o) == o.exc # ""

\* line.split("'", 2): the text around the first two quotes.
SplitQuote(text) ==
    CASE text = "file 'a.jpg'" -> << "file ", "a.jpg", "" >>
      [] text = "file 'b.jpg'" -> << "file ", "b.jpg", "" >>
      [] text = "file 'c.jpg'" -> << "file ", "c.jpg", "" >>
      [] OTHER                 -> << text >>

\* lines 36-42 and 83-89: the image named by the first frame line.  Index 1
\* of the split is outside every try statement.
first_image(content) ==
    LET ls == FrameLines(SplitLines(content))
    IN IF ls = <<>> THEN Return(NoneV)
       ELSE LET parts == SplitQuote(Head(ls)[1])
            IN IF Len(parts) < 2 THEN Raise("IndexError") ELSE Return(Some(parts[2]))

ImageStates == { "missing", "unreadable", "noexif", "baddate", "dated" }

\* "try: body / except Exception: return None"
ExceptReturnsNone(body) == IF Raised(body) THEN Return(NoneV) ELSE body

\* lines 95-108: the body of the try statement; "landscape" or "portrait" for
\* the (w, h) found.
ImageSize(e) ==
    IF e.image = "unreadable" THEN Raise("OSError")
    ELSE Return(Some(IF e.portrait THEN "portrait" ELSE "landscape"))

\* lines 82-111
get_first_image_size_from_filelist(e) ==
    LET found == first_image(e.manifest)
    IN IF Raised(found) THEN found
       ELSE IF IsNone(found.ret) \/ e.image = "missing" \/ ~e.pil THEN Return(NoneV)
       ELSE ExceptReturnsNone(ImageSize(e))

\* lines 50-60: the body of the try statement; the date as "YYYY-MM-DD".
\* Without the imaging library Image is None and Image.open raises.
ExifDate(e) ==
    IF ~e.pil THEN Raise("AttributeError")
    ELSE CASE e.image = "unreadable" -> Raise("OSError")
           [] e.image = "noexif"     -> Return(NoneV)
           [] e.image = "baddate"    -> Raise("ValueError")
           [] OTHER                  -> Return(Some("2024-05-01"))

\* Mutant of get_exif_date_from_filelist: no except clause, so the exception
\* of the body leaves the function.
get_exif_date_from_filelist_NoExcept(e) ==
    LET found == first_image(e.manifest)
    IN IF Raised(found) THEN found
       ELSE IF IsNone(found.ret) \/ e.image = "missing" THEN Return(NoneV)
       ELSE ExifDate(e)

\* lines 26-65
get_exif_date_from_filelist(e) ==
    LET found == first_image(e.manifest)
    IN IF Raised(found) THEN found
       ELSE IF IsNone(found.ret) \/ e.image = "missing" THEN Return(NoneV)
       ELSE ExceptReturnsNone(ExifDate(e))

DefaultEnv ==
    [ manifest |-> FileContent(<< "file 'a.jpg'", "file 'b.jpg'" >>, TRUE),
      image    |-> "dated",
      portrait |-> FALSE,
      pil      |-> TRUE ]

\* ------------------------------------------------------------------ strings
DigitStr(d) == << "0", "1", "2", "3", "4", "5", "6", "7", "8", "9" >>[d + 1]

\* str() of a float with one decimal, given in tenths: 15 is "1.5", 20 is "2.0".
FloatStr(t) == << DigitStr(t \div 10), ".", DigitStr(t % 10) >>

\* sep.join(parts), each part a sequence of pieces
RECURSIVE Join(_, _)
Join(sep, parts) ==
    IF parts = <<>> THEN <<>>
    ELSE IF Len(parts) = 1 THEN Head(parts)
    ELSE Head(parts) \o << sep >> \o Join(sep, Tail(parts))

\* ----------------------------------------------------------------- actions
RTStart(c, e) ==
    /\ rpc = "start"
    /\ cli = c
    /\ env = e
    /\ args = ParseArgs(c)
    /\ warnings = {}
    /\ base_name = <<>>
    /\ suffix = <<>>
    /\ output_path = <<>>
    /\ WH = << 0, 0 >>
    /\ filters = <<>>
    /\ vf = <<>>
    /\ input_filelist = ""
    /\ temp_file = NoneV
    /\ tmpfs = NoneV
    /\ wm = [position |-> "", size |-> 0, alpha |-> 0, target_px |-> 0]
    /\ cmd = <<>>
    /\ enc = [calls |-> 0, input |-> NoneV, exit |-> NoneV]
    /\ stdout = <<>>

\* lines 279-283
ResolveAspect ==
    /\ rpc = "start"
    /\ args' = IF args.aspect_mode = "auto"
               THEN [args EXCEPT !.aspect_mode =
                        IF args.orientation = "vertical" THEN "crop" ELSE "scale"]
               ELSE args
    /\ rpc' = "inspect"
    /\ UNCHANGED << cli, env, warnings, base_name, suffix, output_path, WH, filters, vf,
                    input_filelist, temp_file, tmpfs, wm, cmd, enc, stdout >>
    /\ UNCHANGED flvars

\* lines 286-300
WarnOrientation ==
    /\ rpc = "inspect"
    /\ LET call == get_first_image_size_from_filelist(env)
           src_size == call.ret
           out_is_vertical == args.orientation = "vertical"
       IN IF Raised(call)
          THEN /\ rpc' = "crashed"
               /\ UNCHANGED warnings
          ELSE /\ warnings' =
                    IF IsNone(src_size) THEN {}
                    ELSE LET src_is_vertical == Val(src_size) = "portrait"
                         IN (IF out_is_vertical /\ ~src_is_vertical
                             THEN { "vertical-from-landscape" } ELSE {})
                            \cup
                            (IF ~out_is_vertical /\ src_is_vertical
                             THEN { "landscape-from-vertical" } ELSE {})
               /\ rpc' = "look"
    /\ UNCHANGED << cli, env, args, base_name, suffix, output_path, WH, filters, vf,
                    input_filelist, temp_file, tmpfs, wm, cmd, enc, stdout >>
    /\ UNCHANGED flvars

\* lines 306-315: the look preset merged into the namespace.
MergeLook(a) ==
    IF Truthy(a.look)
    THEN LET preset == LOOK_PRESETS[Val(a.look)]
         IN [a EXCEPT !.gamma      = IF @ = 100 THEN preset.gamma ELSE @,
                      !.contrast   = IF @ = 100 THEN preset.contrast ELSE @,
                      !.saturation = IF @ = 100 THEN preset.saturation ELSE @,
                      !.clarity    = IF @ = 0 THEN preset.clarity ELSE @]
    ELSE a

\* lines 303-315
ApplyLook ==
    /\ rpc = "look"
    /\ args' = MergeLook(args)
    /\ rpc' = "naming"
    /\ UNCHANGED << cli, env, warnings, base_name, suffix, output_path, WH, filters, vf,
                    input_filelist, temp_file, tmpfs, wm, cmd, enc, stdout >>
    /\ UNCHANGED flvars

\* lines 321-329: base_name, as a sequence of pieces.
BaseName(a, e) ==
    LET base == IF Truthy(a.name) THEN Val(a.name) ELSE Stem(a.filelist)
        date_str == IF a.use_exif_date THEN get_exif_date_from_filelist(e).ret ELSE NoneV
    IN IF a.use_exif_date /\ Truthy(date_str)
       THEN << Val(date_str), "_", base >>
       ELSE << base >>

\* Mutant of SuffixTags: the watermark-position tag is appended only when a
\* watermark file is given.
SuffixTags_WatermarkGated(a) ==
    << << a.resolution >> >>
    \o (IF Truthy(a.look) THEN << << Val(a.look) >> >> ELSE <<>>)
    \o (IF a.slowdown # 10 THEN << << "slow" >> \o FloatStr(a.slowdown) \o << "x" >> >> ELSE <<>>)
    \o (IF a.boomerang THEN << << "boom" >> >> ELSE <<>>)
    \o (IF a.orientation = "vertical" THEN << << "vertical" >> >> ELSE <<>>)
    \o (IF Truthy(a.watermark) /\ a.wm_position # "" THEN << << "WM-", a.wm_position >> >>
        ELSE IF Truthy(a.watermark) THEN << << "wm" >> >>
        ELSE <<>>)

\* lines 331-354: suffix, the list of tags, each a sequence of pieces.
SuffixTags(a) ==
    << << a.resolution >> >>
    \o (IF Truthy(a.look) THEN << << Val(a.look) >> >> ELSE <<>>)
    \o (IF a.slowdown # 10 THEN << << "slow" >> \o FloatStr(a.slowdown) \o << "x" >> >> ELSE <<>>)
    \o (IF a.boomerang THEN << << "boom" >> >> ELSE <<>>)
    \o (IF a.orientation = "vertical" THEN << << "vertical" >> >> ELSE <<>>)
    \o (IF a.wm_position # "" THEN << << "WM-", a.wm_position >> >>
        ELSE IF Truthy(a.watermark) THEN << << "wm" >> >>
        ELSE <<>>)

\* lines 318-365
OutputNaming ==
    /\ rpc = "naming"
    /\ IF args.use_exif_date /\ Raised(get_exif_date_from_filelist(env))
       THEN /\ rpc' = "crashed"
            /\ UNCHANGED << base_name, suffix, output_path >>
       ELSE /\ base_name' = BaseName(args, env)
            /\ suffix' = SuffixTags(args)
            /\ output_path' = << args.outdir, "/" >> \o base_name' \o << "_" >>
                                \o Join("_", suffix') \o << ".mp4" >>
            /\ rpc' = "filters"
    /\ UNCHANGED << cli, env, args, warnings, WH, filters, vf,
                    input_filelist, temp_file, tmpfs, wm, cmd, enc, stdout >>
    /\ UNCHANGED flvars

\* lines 388-391
Resolution(a) ==
    IF a.orientation = "landscape"
    THEN (IF a.resolution \in { "1080p", "HD" } THEN << 1920, 1080 >> ELSE << 3840, 2160 >>)
    ELSE (IF a.resolution \in { "1080p", "HD" } THEN << 1080, 1920 >> ELSE << 2160, 3840 >>)

Filter(name, nums, expr) == [f |-> name, a |-> nums, y |-> expr]

\* lines 404-431: the aspect-fit stage.
FitStage(a, wh) ==
    IF a.aspect_mode = "scale" THEN << Filter("scale", wh, "lanczos") >>
    ELSE IF a.aspect_mode = "pad"
         THEN << Filter("scale", wh, "min"), Filter("pad", wh, "(oh-ih)/2") >>
    ELSE IF a.aspect_mode = "crop"
         THEN LET y_expr == CASE a.crop_bias = "upper"  -> "0"
                              [] a.crop_bias = "center" -> "(ih-oh)/2"
                              [] a.crop_bias = "lower"  -> "ih-oh"
              IN << Filter("scale", wh, "max"), Filter("crop", wh, y_expr) >>
    ELSE << Filter("scale", wh, "lanczos") >>

\* Mutant of BuildFilters: the color stage is emitted only when gamma differs from 1.0.
BuildFilters_ColorOnGammaOnly(a, wh) ==
    << FitStage(a, wh) >>
    \o (IF a.gamma # 100
        THEN << << Filter("eq", << a.gamma, a.contrast, a.saturation >>, "") >> >> ELSE <<>>)
    \o (IF a.clarity > 0 THEN << << Filter("unsharp", << 3, 3, a.clarity >>, "") >> >> ELSE <<>>)
    \o (IF a.slowdown # 10 THEN << << Filter("setpts", << a.slowdown >>, "PTS") >> >> ELSE <<>>)
    \o (IF a.debug_overlay THEN << << Filter("drawtext", <<>>, "%{n} %{filename}") >> >> ELSE <<>>)
    \o << << Filter("fps", << a.fps >>, "") >> >>

\* Mutant of BuildFilters: the speed stage is appended before the clarity stage.
BuildFilters_SpeedBeforeClarity(a, wh) ==
    << FitStage(a, wh) >>
    \o (IF a.gamma # 100 \/ a.contrast # 100 \/ a.saturation # 100
        THEN << << Filter("eq", << a.gamma, a.contrast, a.saturation >>, "") >> >> ELSE <<>>)
    \o (IF a.slowdown # 10 THEN << << Filter("setpts", << a.slowdown >>, "PTS") >> >> ELSE <<>>)
    \o (IF a.clarity > 0 THEN << << Filter("unsharp", << 3, 3, a.clarity >>, "") >> >> ELSE <<>>)
    \o (IF a.debug_overlay THEN << << Filter("drawtext", <<>>, "%{n} %{filename}") >> >> ELSE <<>>)
    \o << << Filter("fps", << a.fps >>, "") >> >>

\* lines 402-464: filters, the list of stages.
BuildFilters(a, wh) ==
    << FitStage(a, wh) >>
    \o (IF a.gamma # 100 \/ a.contrast # 100 \/ a.saturation # 100
        THEN << << Filter("eq", << a.gamma, a.contrast, a.saturation >>, "") >> >> ELSE <<>>)
    \o (IF a.clarity > 0 THEN << << Filter("unsharp", << 3, 3, a.clarity >>, "") >> >> ELSE <<>>)
    \o (IF a.slowdown # 10 THEN << << Filter("setpts", << a.slowdown >>, "PTS") >> >> ELSE <<>>)
    \o (IF a.debug_overlay THEN << << Filter("drawtext", <<>>, "%{n} %{filename}") >> >> ELSE <<>>)
    \o << << Filter("fps", << a.fps >>, "") >> >>

\* lines 385-466
BuildFilterChain ==
    /\ rpc = "filters"
    /\ WH' = Resolution(args)
    /\ filters' = BuildFilters(args, WH')
    /\ vf' = Flatten(filters')
    /\ rpc' = "boomerang"
    /\ UNCHANGED << cli, env, args, warnings, base_name, suffix, output_path,
                    input_filelist, temp_file, tmpfs, wm, cmd, enc, stdout >>
    /\ UNCHANGED flvars

\* lines 475-488: what is written to the temporary file.
BoomerangContent(content) ==
    LET lines == FrameLines(SplitLines(content))
        reversed_lines == DropFirst(Reverse(lines))
    IN Flatten(lines) \o Flatten(reversed_lines)

\* lines 468-491
Boomerang ==
    /\ rpc = "boomerang"
    /\ IF args.boomerang
       THEN /\ temp_file' = Some("tmp.txt")
            /\ tmpfs' = Some(BoomerangContent(env.manifest))
            /\ input_filelist' = "tmp.txt"
       ELSE /\ temp_file' = NoneV
            /\ tmpfs' = tmpfs
            /\ input_filelist' = args.filelist
    /\ rpc' = "command"
    /\ UNCHANGED << cli, env, args, warnings, base_name, suffix, output_path, WH, filters, vf,
                    wm, cmd, enc, stdout >>
    /\ UNCHANGED flvars

Min(x, y) == IF x < y THEN x ELSE y

\* lines 521-565: the watermark's position, size (in ten-thousandths), alpha
\* (in hundredths) and target width.
WatermarkValues(a, wh) ==
    LET watermark_position ==
            IF a.wm_position # ""
            THEN DictGet(WATERMARK_POSITIONS, a.wm_position,
                         WATERMARK_POSITIONS[WATERMARK_DEFAULT_POSITION])
            ELSE WATERMARK_POSITIONS[WATERMARK_DEFAULT_POSITION]
        size == IF a.wm_size.isnum THEN (IF a.wm_size.num # 0 THEN a.wm_size.num ELSE WATERMARK_DEFAULT_SIZE)
                ELSE IF a.wm_size.str # ""
                     THEN DictGet(WATERMARK_SIZES, a.wm_size.str, WATERMARK_SIZES["default"])
                     ELSE WATERMARK_DEFAULT_SIZE
        alpha == IF a.wm_alpha.isnum THEN (IF a.wm_alpha.num # 0 THEN a.wm_alpha.num ELSE WATERMARK_DEFAULT_ALPHA)
                 ELSE IF a.wm_alpha.str # ""
                      THEN DictGet(WATERMARK_TRANSPARENCY, a.wm_alpha.str, WATERMARK_TRANSPARENCY["default"])
                      ELSE WATERMARK_DEFAULT_ALPHA
        watermark_size == IF a.orientation = "vertical"
                          THEN size * WATERMARK_VERTICAL_MULTIPLIER
                          ELSE size * 100
        px == (Min(wh[1], wh[2]) * watermark_size) \div 10000
    IN [ position  |-> watermark_position,
         size      |-> watermark_size,
         alpha     |-> alpha,
         target_px |-> Min(px, WATERMARK_MAX_PX) ]

\* lines 588-622: the parts of the ffmpeg command that vary.
Command(a, input, chain, w, out) ==
    IF Truthy(a.watermark)
    THEN [ i |-> << input, Val(a.watermark) >>, flag |-> "-filter_complex",
           graph |-> [vf |-> chain, wm |-> Some(w)],
           crf |-> a.crf, preset |-> a.preset, output |-> out ]
    ELSE [ i |-> << input >>, flag |-> "-vf",
           graph |-> [vf |-> chain, wm |-> NoneV],
           crf |-> a.crf, preset |-> a.preset, output |-> out ]

\* lines 495-622
BuildCommand ==
    /\ rpc = "command"
    /\ wm' = WatermarkValues(args, WH)
    /\ cmd' = Some(Command(args, input_filelist, vf, wm', output_path))
    /\ rpc' = "execute"
    /\ UNCHANGED << cli, env, args, warnings, base_name, suffix, output_path, WH, filters, vf,
                    input_filelist, temp_file, tmpfs, enc, stdout >>
    /\ UNCHANGED flvars

\* The exit codes of the encoder: success, failure.
ExitCodes == { 0, 1 }

\* Mutant of Execute: subprocess.run without check=True, a failed encoder is ignored.
Execute_Unchecked ==
    /\ rpc = "execute"
    /\ stdout' = Append(stdout, "FFmpeg command")
    /\ IF ~args.dry_run
       THEN \E rc \in ExitCodes :
               enc' = [calls |-> enc.calls + 1, input |-> Some(Val(cmd).i[1]), exit |-> Some(rc)]
       ELSE enc' = enc
    /\ rpc' = "cleanup"
    /\ UNCHANGED << cli, env, args, warnings, base_name, suffix, output_path, WH, filters, vf,
                    input_filelist, temp_file, tmpfs, wm, cmd >>
    /\ UNCHANGED flvars

\* lines 624-631: the command is printed; unless dry-run, the encoder runs
\* once, and a non-zero exit raises CalledProcessError out of main.
Execute ==
    /\ rpc = "execute"
    /\ stdout' = Append(stdout, "FFmpeg command")
    /\ IF ~args.dry_run
       THEN \E rc \in ExitCodes :
               /\ enc' = [calls |-> enc.calls + 1, input |-> Some(Val(cmd).i[1]), exit |-> Some(rc)]
               /\ rpc' = IF rc = 0 THEN "cleanup" ELSE "failed"
       ELSE /\ enc' = enc
            /\ rpc' = "cleanup"
    /\ UNCHANGED << cli, env, args, warnings, base_name, suffix, output_path, WH, filters, vf,
                    input_filelist, temp_file, tmpfs, wm, cmd >>
    /\ UNCHANGED flvars

\* lines 633-636
Cleanup ==
    /\ rpc = "cleanup"
    /\ tmpfs' = IF Truthy(temp_file) /\ tmpfs # NoneV THEN NoneV ELSE tmpfs
    /\ stdout' = Append(stdout, "Done")
    /\ rpc' = "done"
    /\ UNCHANGED << cli, env, args, warnings, base_name, suffix, output_path, WH, filters, vf,
                    input_filelist, temp_file, wm, cmd, enc >>
    /\ UNCHANGED flvars

\* ===========================================================================
\*                               Specifications
\* ===========================================================================

\* The other program is not running.
FLIdle ==
    /\ fpc = "not run"
    /\ isdir = FALSE
    /\ files = <<>>
    /\ start = NoneV
    /\ end = NoneV
    /\ skip_list = NoneV
    /\ mode = "None"
    /\ matches = <<>>
    /\ output_before = NoneV
    /\ manifest = NoneV
    /\ ferr = ""

RTIdle ==
    /\ rpc = "not run"
    /\ cli = DefaultCli
    /\ env = DefaultEnv
    /\ args = ParseArgs(DefaultCli)
    /\ warnings = {}
    /\ base_name = <<>>
    /\ suffix = <<>>
    /\ output_path = <<>>
    /\ WH = << 0, 0 >>
    /\ filters = <<>>
    /\ vf = <<>>
    /\ input_filelist = ""
    /\ temp_file = NoneV
    /\ tmpfs = NoneV
    /\ wm = [position |-> "", size |-> 0, alpha |-> 0, target_px |-> 0]
    /\ cmd = <<>>
    /\ enc = [calls |-> 0, input |-> NoneV, exit |-> NoneV]
    /\ stdout = <<>>

\* A run of make_filelist.py on any directory, bounds and skip-list.
InitFL == FLStart /\ RTIdle

NextFL == CheckDir \/ Detect \/ Collect \/ WriteManifest

SpecFL == InitFL /\ [][NextFL]_vars

NextRT == \/ ResolveAspect
          \/ WarnOrientation
          \/ ApplyLook
          \/ OutputNaming
          \/ BuildFilterChain
          \/ Boomerang
          \/ BuildCommand
          \/ Execute
          \/ Cleanup

\* Runs of render_timelapse.py that vary the manifest, boomerang and dry-run.
CliBoom == { [DefaultCli EXCEPT !.boomerang = b, !.dry_run = d] : b, d \in BOOLEAN }
EnvBoom == { [DefaultEnv EXCEPT !.manifest = m] : m \in ManifestContents }

InitBoom == FLIdle /\ \E c \in CliBoom, e \in EnvBoom : RTStart(c, e)

SpecBoom == InitBoom /\ [][NextRT]_vars

\* Runs of render_timelapse.py that vary the look, the colour values, the
\* speed, the debug overlay and the aspect-fit options.
CliLook ==
    { [DefaultCli EXCEPT !.look = l, !.gamma = g, !.contrast = c, !.saturation = sa,
                         !.clarity = cl, !.slowdown = sl, !.debug_overlay = d,
                         !.aspect_mode = am, !.orientation = o, !.crop_bias = cb] :
        l  \in { NoneV, Some("milkyway"), Some("aurora"), Some("aurora-boosted") },
        g  \in { NoneV, Some(100), Some(120) },
        c  \in { NoneV, Some(110) },
        sa \in { NoneV, Some(105) },
        cl \in { NoneV, Some(0), Some(20), Some(-10) },
        sl \in { NoneV, Some(15) },
        d  \in BOOLEAN,
        am \in { NoneV, Some("scale"), Some("crop"), Some("pad") },
        o  \in { NoneV, Some("vertical") },
        cb \in { NoneV, Some("upper") } }

InitLook == FLIdle /\ \E c \in CliLook : RTStart(c, DefaultEnv)

SpecLook == InitLook /\ [][NextRT]_vars

\* Runs of render_timelapse.py that vary what the output name is made of.
CliName ==
    { [DefaultCli EXCEPT !.name = n, !.resolution = r, !.look = l, !.slowdown = sl,
                         !.boomerang = b, !.orientation = o, !.wm_position = wp,
                         !.watermark = w, !.use_exif_date = x] :
        n  \in { NoneV, Some(""), Some("seq1") },
        r  \in { NoneV, Some("HD"), Some("2160p"), Some("4k") },
        l  \in { NoneV, Some("milkyway"), Some("aurora"), Some("aurora-boosted") },
        sl \in { NoneV, Some(15), Some(20) },
        b  \in BOOLEAN,
        o  \in { NoneV, Some("vertical") },
        wp \in { NoneV, Some(""), Some("center") },
        w  \in { NoneV, Some("logo.png") },
        x  \in BOOLEAN }
EnvName == { [DefaultEnv EXCEPT !.image = i] : i \in { "dated", "noexif" } }

InitName == FLIdle /\ \E c \in CliName, e \in EnvName : RTStart(c, e)

SpecName == InitName /\ [][NextRT]_vars

\* Runs of render_timelapse.py that vary the watermark's size, the
\* orientation and the resolution.
CliWM ==
    { [DefaultCli EXCEPT !.wm_size = z, !.orientation = o, !.resolution = r, !.watermark = w] :
        z \in { NoneV, Some("small"), Some("default"), Some("large"), Some("0.2"), Some("0.5") },
        o \in { NoneV, Some("vertical") },
        r \in { NoneV, Some("HD"), Some("2160p"), Some("4k") },
        w \in { NoneV, Some("logo.png") } }

InitWM == FLIdle /\ \E c \in CliWM : RTStart(c, DefaultEnv)

SpecWM == InitWM /\ [][NextRT]_vars

\* Runs of render_timelapse.py that vary what the inspection of the first
\* image meets: the manifest, the image file and the imaging library.
CliInspect ==
    { [DefaultCli EXCEPT !.use_exif_date = x, !.orientation = o] :
        x \in BOOLEAN, o \in { NoneV, Some("vertical") } }
EnvInspect ==
    { [ manifest |-> m, image |-> i, portrait |-> p, pil |-> l ] :
        m \in { <<>>,
                FileContent(<< "# note" >>, TRUE),
                FileContent(<< "# note", "file 'a.jpg'", "file 'b.jpg'" >>, TRUE),
                FileContent(<< "file d.jpg", "file 'b.jpg'" >>, TRUE) },
        i \in ImageStates,
        p \in BOOLEAN,
        l \in BOOLEAN }

InitInspect == FLIdle /\ \E c \in CliInspect, e \in EnvInspect : RTStart(c, e)

SpecInspect == InitInspect /\ [][NextRT]_vars

\* ---------------------------------------------------------------------------
\* Properties of make_filelist.py
\* ---------------------------------------------------------------------------
FileSet == { files[i] : i \in 1..Len(files) }

\* The convention of the first name of the listing that matches a pattern.
FirstMatchIdx == { i \in 1..Len(files) : pattern_simple(files[i]) \/ pattern_suffix(files[i]) }
ExpectedMode ==
    IF FirstMatchIdx = {} THEN "None"
    ELSE LET k == CHOOSE k \in FirstMatchIdx : \A j \in FirstMatchIdx : k <= j
         IN IF Len(files[k].suf) = 4 THEN "suffix" ELSE "simple"

InMode(m, f) == (m = "suffix" /\ pattern_suffix(f)) \/ (m = "simple" /\ pattern_simple(f))
\* The frame number of a file under a mode: the suffix counter or the DSCF counter.
FrameNumber(m, f) == IF m = "suffix" THEN ToInt(f.suf) ELSE ToInt(f.num)

InRange(n) ==
    /\ (start # NoneV => Val(start) <= n)
    /\ (end # NoneV => n <= Val(end))
    /\ (skip_list # NoneV => \A i \in 1..Len(Val(skip_list)) : Val(skip_list)[i] # n)

Listed == { Val(manifest)[i].path : i \in 1..Len(Val(manifest)) }
LineNumber(i) == FrameNumber(mode, Val(manifest)[i].path)

\* All matching files of the directory follow one convention.
OneConvention == \/ \A f \in FileSet : ~pattern_simple(f)
                 \/ \A f \in FileSet : ~pattern_suffix(f)

\* No two files of the directory that match the mode carry the same frame number.
NumbersDistinct ==
    \A f, g \in FileSet :
        (InMode(mode, f) /\ InMode(mode, g) /\ f # g) => FrameNumber(mode, f) # FrameNumber(mode, g)

\* C1 as stated: with one convention in the directory, the manifest lines are
\* in strictly ascending order of the extracted frame number, whatever the
\* listing order.
C1_StrictlyAscending ==
    (fpc = "done" /\ OneConvention) =>
        \A i, j \in 1..Len(Val(manifest)) : i < j => LineNumber(i) < LineNumber(j)

\* C1 amended: with one convention in the directory, the manifest lines are in
\* ascending (non-decreasing) order of the extracted frame number, whatever the
\* listing order, and strictly ascending when no two matching files carry the
\* same frame number.
C1_Ascending ==
    (fpc = "done" /\ OneConvention) =>
        \A i, j \in 1..Len(Val(manifest)) :
            i < j => /\ LineNumber(i) <= LineNumber(j)
                     /\ (NumbersDistinct => LineNumber(i) < LineNumber(j))

\* C1 witness: a manifest of several frames written from a listing that
\* returned a higher-numbered file before a lower-numbered one.
C1_Witness ==
    /\ fpc = "done"
    /\ OneConvention
    /\ NumbersDistinct
    /\ Len(Val(manifest)) >= 2
    /\ \E i, j \in 1..Len(files) :
          /\ i < j
          /\ files[i] \in Listed /\ files[j] \in Listed
          /\ FrameNumber(mode, files[i]) > FrameNumber(mode, files[j])

\* C5: the manifest lists exactly the files that match the detected mode's
\* pattern and whose number is within [start, end] (each bound only when set)
\* and not in the skip-list, each once.
C5_ExactlyTheFilteredFiles ==
    fpc = "done" =>
        /\ Listed = { f \in FileSet : InMode(mode, f) /\ InRange(FrameNumber(mode, f)) }
        /\ Cardinality(Listed) = Len(Val(manifest))

\* C5 witness: a manifest written with start, end and a non-empty skip-list
\* set, from a directory holding a matching file that the filter left out.
C5_Witness ==
    /\ fpc = "done"
    /\ start # NoneV /\ end # NoneV
    /\ skip_list # NoneV /\ Val(skip_list) # <<>>
    /\ \E f \in FileSet : InMode(mode, f) /\ f \notin Listed

NoMatch == \A f \in FileSet : ~pattern_simple(f) /\ ~pattern_suffix(f)
ZeroRemain == { f \in FileSet : InMode(ExpectedMode, f) /\ InRange(FrameNumber(ExpectedMode, f)) } = {}
FatalCase == ~isdir \/ NoMatch \/ ZeroRemain

\* C7: the run ends in a fatal error exactly when the directory is not a
\* directory, no name matches either pattern, or no file remains after
\* filtering; in every other case it ends by writing the manifest; and it
\* always ends in one of the two ways.
C7_FatalExactlyInThreeCases ==
    /\ fpc = "error" => /\ FatalCase
                        /\ manifest = output_before
                        /\ ferr = IF ~isdir THEN "Not a directory"
                                  ELSE IF NoMatch THEN "No supported JPG filename patterns found"
                                  ELSE "No valid JPG files found in the specified range"
    /\ fpc = "done" => ~FatalCase /\ manifest # NoneV /\ ferr = ""
    /\ fpc \notin {"error", "done"} => ENABLED NextFL

\* C7 witness: a run that ended in the third fatal error: a directory with
\* matching files, none of which survived the filter.
C7_Witness == fpc = "error" /\ isdir /\ ~NoMatch /\ ZeroRemain

\* C10: the mode is that of the first file, in listing order, that matches
\* either pattern; it stays fixed; every manifest entry matches that mode's
\* pattern and none matches the other convention's.
C10_ModeOfFirstMatch ==
    /\ fpc \in {"collect", "write", "done"} => mode = ExpectedMode /\ mode # "None"
    /\ fpc \in {"write", "done"} =>
          \A i \in 1..Len(matches) : InMode(mode, matches[i][2])
    /\ fpc = "done" =>
          \A f \in Listed :
              /\ InMode(mode, f)
              /\ ~InMode(IF mode = "suffix" THEN "simple" ELSE "suffix", f)

\* C10 witness: a manifest written from a directory that holds files of both
\* conventions, a file of the other convention coming later in the listing.
C10_Witness ==
    /\ fpc = "done"
    /\ \E f, g \in FileSet : pattern_simple(f) /\ pattern_suffix(g)
    /\ mode = "simple"

\* ---------------------------------------------------------------------------
\* Properties of render_timelapse.py
\* ---------------------------------------------------------------------------
ColorParams == { "gamma", "contrast", "saturation", "clarity" }
LookApplied == rpc \in { "naming", "filters", "boomerang", "command", "execute", "cleanup", "done", "failed" }
ChainBuilt == rpc \in { "boomerang", "command", "execute", "cleanup", "done", "failed" }
Named == rpc \in { "filters", "boomerang", "command", "execute", "cleanup", "done", "failed" }
Ended == rpc \in { "done", "failed" }

\* C2: a value of gamma, contrast, saturation or clarity given on the command
\* line is the final value, also when a look preset is selected.
C2_ExplicitValueWins ==
    LookApplied =>
        \A p \in ColorParams : cli[p] # NoneV => args[p] = Val(cli[p])

\* The frame lines of the input manifest, as the renderer reads them.
OrigFrameLines == FrameLines(SplitLines(env.manifest))

\* C3: with boomerang, for an input of N >= 1 frame lines the temporary
\* manifest has exactly 2*N - 1 lines, the first N being the original lines in
\* order and line N+1 being original line N-1.
C3_BoomerangManifest ==
    (args.boomerang /\ tmpfs # NoneV /\ Len(OrigFrameLines) >= 1) =>
        LET N == Len(OrigFrameLines)
            T == SplitLines(Val(tmpfs))
        IN /\ Len(T) = 2 * N - 1
           /\ \A i \in 1..N : T[i] = OrigFrameLines[i]
           /\ (N >= 2 => T[N + 1] = OrigFrameLines[N - 1])

StageKind(flt) ==
    CASE flt.f \in { "scale", "pad", "crop" } -> "fit"
      [] flt.f = "eq"       -> "color"
      [] flt.f = "unsharp"  -> "clarity"
      [] flt.f = "setpts"   -> "speed"
      [] flt.f = "drawtext" -> "overlay"
      [] flt.f = "fps"      -> "fps"

StageRank(flt) ==
    CASE StageKind(flt) = "fit"     -> 1
      [] StageKind(flt) = "color"   -> 2
      [] StageKind(flt) = "clarity" -> 3
      [] StageKind(flt) = "speed"   -> 4
      [] StageKind(flt) = "overlay" -> 5
      [] StageKind(flt) = "fps"     -> 6

\* C4: in the comma-joined chain the stages stand in the order fit, color,
\* clarity, speed, overlay, fps, each at most once; exactly one fit stage comes
\* first and the fps stage is present and last.
C4_ChainOrder ==
    ChainBuilt =>
        /\ Len(filters) >= 2
        /\ \A k \in 1..Len(filters[1]) : StageKind(filters[1][k]) = "fit"
        /\ \A i \in 2..Len(filters) :
              Len(filters[i]) = 1 /\ StageKind(filters[i][1]) # "fit"
        /\ \A i, j \in 1..Len(filters) :
              i < j => StageRank(filters[i][1]) < StageRank(filters[j][1])
        /\ StageKind(filters[Len(filters)][1]) = "fps"
        /\ \A i, j \in 1..Len(vf) : i < j => StageRank(vf[i]) <= StageRank(vf[j])
        /\ StageKind(vf[1]) = "fit" /\ StageKind(vf[Len(vf)]) = "fps"
        /\ Cardinality({ i \in 1..Len(vf) : StageKind(vf[i]) = "fps" }) = 1

\* C4 witness: a chain with all six stages, its fit stage a crop.
C4_Witness ==
    /\ ChainBuilt
    /\ Len(filters) = 6
    /\ args.aspect_mode = "crop"

\* The tags of the claim, in its order, each with the condition under which
\* it is present.
NameCandidates ==
    << [on |-> TRUE, tag |-> << args.resolution >>],
       [on |-> Truthy(args.look), tag |-> << OrDefault(args.look, "") >>],
       [on |-> args.slowdown # 10, tag |-> << "slow" >> \o FloatStr(args.slowdown) \o << "x" >>],
       [on |-> args.boomerang, tag |-> << "boom" >>],
       [on |-> args.orientation = "vertical", tag |-> << "vertical" >>],
       [on |-> args.wm_position # "", tag |-> << "WM-", args.wm_position >>] >>

IsOn(c) == c.on
IsClaimTag(t) == t # << "wm" >>
ExpectedTags == LET on == SelectSeq(NameCandidates, IsOn) IN [i \in 1..Len(on) |-> on[i].tag]

\* The output file's name: output_path without the directory.
FileName == SubSeq(output_path, 3, Len(output_path))

IsPrefix(p, q) == Len(p) <= Len(q) /\ SubSeq(q, 1, Len(p)) = p

\* C6: the output file name is [date_]basename_<chain>.mp4, the chain holding,
\* joined by "_" and in this order, the resolution tag (always), the look, the
\* slow<factor>x tag (slowdown # 1.0), boom, vertical, and WM-<position>
\* whenever a position is set, with or without a watermark file; for
\* name=seq1, 4k, aurora, slowdown 1.5 the name begins seq1_4k_aurora_slow1.5x.
C6_OutputName ==
    Named =>
        LET date == IF args.use_exif_date /\ env.image = "dated"
                    THEN << "2024-05-01", "_" >> ELSE <<>>
            base == IF cli.name \in { NoneV, Some("") } THEN "frames" ELSE Val(cli.name)
        IN /\ SelectSeq(suffix, IsClaimTag) = ExpectedTags
           /\ (args.wm_position # "" => suffix = ExpectedTags)
           /\ FileName = date \o << base, "_" >> \o Join("_", suffix) \o << ".mp4" >>
           /\ (/\ cli.name = Some("seq1") /\ cli.resolution = Some("4k")
               /\ cli.look = Some("aurora") /\ cli.slowdown = Some(15)
               /\ ~cli.use_exif_date)
              => IsPrefix(<< "seq1", "_", "4k", "_", "aurora", "_", "slow", "1", ".", "5", "x" >>,
                          FileName)

\* C6 witness: a name with the date prefix and all six tags, made without a
\* watermark file.
C6_Witness ==
    /\ Named
    /\ Len(suffix) = 6
    /\ Len(base_name) = 3
    /\ IsNone(args.watermark)
    /\ suffix[6] = << "WM-", "bottom-left" >>

\* C8: with boomerang the temporary manifest is the encoder's input, and at the
\* end of every run (encoder success, encoder failure or dry-run) it no longer
\* exists.
C8_TempManifestDeleted ==
    args.boomerang =>
        /\ (enc.calls > 0 => enc.input = temp_file)
        /\ (Ended => tmpfs = NoneV)

\* C9: the encoder is started once when dry-run is off and never when it is
\* on (the command is only printed); it is never started again; a non-zero
\* exit ends the run at once, before "Done" is printed.
C9_EncoderOnce ==
    /\ enc.calls <= 1
    /\ rpc \in { "cleanup", "done", "failed" } =>
          /\ enc.calls = (IF args.dry_run THEN 0 ELSE 1)
          /\ \E i \in 1..Len(stdout) : stdout[i] = "FFmpeg command"
    /\ (enc.exit # NoneV /\ Val(enc.exit) # 0) =>
          /\ rpc = "failed"
          /\ \A i \in 1..Len(stdout) : stdout[i] # "Done"
    /\ rpc = "failed" => ~ENABLED NextRT
    /\ rpc = "done" => stdout[Len(stdout)] = "Done"

\* C9 witness: a run ended by a failed encoder, started once.
C9_Witness == rpc = "failed" /\ enc.calls = 1 /\ enc.exit = Some(1)

\* The filters of the chain that belong to a stage.
StagesOf(kind) == { i \in 1..Len(vf) : StageKind(vf[i]) = kind }

\* The value an option has after the look-preset merge, from the command line
\* and the preset table: the preset's value where the parsed value equals the
\* library default, the parsed value elsewhere.
MergedValue(p, default) ==
    LET parsed == OrDefault(cli[p], default)
    IN IF Truthy(cli.look) /\ parsed = default THEN LOOK_PRESETS[Val(cli.look)][p] ELSE parsed

\* C11: on the option values after the look-preset merge, the chain holds the
\* color stage exactly when gamma, contrast or saturation differs from 1.0,
\* and the stage then carries all three values; the clarity stage exactly
\* when clarity > 0; the speed stage exactly when slowdown differs from 1.0.
C11_OptionalStages ==
    ChainBuilt =>
        LET g  == MergedValue("gamma", 100)
            c  == MergedValue("contrast", 100)
            sa == MergedValue("saturation", 100)
            cl == MergedValue("clarity", 0)
            sl == OrDefault(cli.slowdown, 10)
        IN /\ (StagesOf("color") # {}) <=> (g # 100 \/ c # 100 \/ sa # 100)
           /\ \A i \in StagesOf("color") : vf[i].a = << g, c, sa >>
           /\ (StagesOf("clarity") # {}) <=> (cl > 0)
           /\ \A i \in StagesOf("clarity") : vf[i].a[3] = cl
           /\ (StagesOf("speed") # {}) <=> (sl # 10)
           /\ \A i \in StagesOf("speed") : vf[i].a = << sl >>

\* C11 witness: a chain whose color stage is there for the contrast alone
\* (gamma and saturation 1.0), without a clarity stage for a negative clarity,
\* with a speed stage.
C11_Witness ==
    /\ ChainBuilt
    /\ args.gamma = 100 /\ args.saturation = 100 /\ args.contrast # 100
    /\ StagesOf("color") # {}
    /\ args.clarity < 0 /\ StagesOf("clarity") = {}
    /\ StagesOf("speed") # {}

CommandBuilt == rpc \in { "execute", "cleanup", "done", "failed" }

\* The size factor the user asked for, in hundredths: the default 0.12, a
\* named size, or the number typed.
RequestedSize ==
    IF IsNone(cli.wm_size) THEN 12
    ELSE CASE Val(cli.wm_size) = "small"   -> 8
           [] Val(cli.wm_size) = "default" -> 12
           [] Val(cli.wm_size) = "large"   -> 15
           [] Val(cli.wm_size) = "0.2"     -> 20
           [] Val(cli.wm_size) = "0.5"     -> 50

ShorterDimension == IF args.resolution \in { "1080p", "HD" } THEN 1080 ELSE 2160

\* C12: the watermark's target width is min(floor(shorter output dimension *
\* size factor), 512), the size factor being the --wm-size given (a number or
\* a named size, default 0.12) times 1.35 when the orientation is vertical;
\* the width never exceeds 512.
C12_WatermarkWidth ==
    CommandBuilt =>
        LET factor == RequestedSize * (IF args.orientation = "vertical" THEN 135 ELSE 100)
        IN /\ wm.target_px = Min((ShorterDimension * factor) \div 10000, 512)
           /\ wm.target_px <= 512

\* The listed failures of the inspection.  The first frame line, when there
\* is one, quotes its path.
NoFrameLine == OrigFrameLines = <<>>
QuotedFrameLine == OrigFrameLines # <<>> /\ Head(OrigFrameLines)[1] \in FrameTexts
SizeFailure ==
    \/ NoFrameLine
    \/ QuotedFrameLine /\ (env.image \in { "missing", "unreadable" } \/ ~env.pil)
DateFailure ==
    \/ NoFrameLine
    \/ QuotedFrameLine /\ (env.image \in { "missing", "unreadable", "noexif", "baddate" } \/ ~env.pil)
Inspected == rpc \notin { "not run", "start", "inspect", "crashed" }
BeforeCommand == rpc \in { "start", "inspect", "look", "naming", "filters", "boomerang", "command" }

MatchesSorted == \A i, j \in 1..Len(matches) : i < j => matches[i][1] <= matches[j][1]

\* C14: until the manifest builder is done the output file is as the run found
\* it (absent, or with its earlier content), also when the run ends in one of
\* the three fatal errors; the file is written only from a non-empty, sorted
\* match list, and a written manifest has one line per match, at least one.
C14_OutputUntouchedOnError ==
    /\ fpc \in { "start", "detect", "collect", "write", "error" } => manifest = output_before
    /\ fpc = "error" => FatalCase
    /\ manifest # output_before =>
          /\ fpc = "done"
          /\ matches # <<>>
          /\ MatchesSorted
          /\ manifest # NoneV
          /\ Len(Val(manifest)) = Len(matches)
          /\ Len(Val(manifest)) >= 1

\* C14 witness: a run that found an earlier manifest at the output path and
\* ended in the third fatal error, the earlier manifest still in place.
C14_Witness ==
    /\ fpc = "error"
    /\ isdir /\ ~NoMatch /\ ZeroRemain
    /\ output_before # NoneV
    /\ manifest = output_before

====
